---------------------------- MODULE Spec2Model ----------------------------
(***************************************************************************)
(* Fan-out / fan-in pipeline of precode.go:                                *)
(*   Generator -> chIn -> Worker[0..NumOut-1] -> outs[i] -> collector[i]   *)
(*             -> chOut -> sink -> result checks of main.                  *)
(* Every goroutine is a process with a program counter; an unbuffered      *)
(* channel operation is a rendezvous of the sender and one receiver, the   *)
(* buffered channel chOut is a bounded FIFO queue.                         *)
(***************************************************************************)
EXTENDS Integers, Sequences, FiniteSets

\* Largest worker pool explored (the program fixes NumOut = 20).
MaxWorkers == 2

\* Largest number the Generator may send before the deadline has to fire.
MaxItems == 2

\* Largest counter value the result checks of main are tried on.
MaxCounter == 2

VARIABLES
    NumOut,       \* number of workers and of output channels
    cancelled,    \* ctx.Done() is closed
    pcGen,        \* Generator: "select", "send", "count", "sum", "done"
    n,            \* Generator's local n
    genSent,      \* history: number of completed sends on chIn
    lateSent,     \* history: sends completed after the deadline had fired
    chInClosed,   \* chIn is closed
    inputCount,   \* atomic inputCount
    inputSum,     \* atomic inputSum
    pcW,          \* Worker i: "recv", "send", "sleep", "done"
    wv,           \* Worker i's loop variable v (0 when it holds none)
    outsClosed,   \* outs[i] is closed
    lastOut,      \* history: the last value Worker i sent on outs[i] (0: none)
    pcC,          \* collector i: "recv", "lock", "inc", "unlock", "send", "done"
    cv,           \* collector i's loop variable v (0 when it holds none)
    amounts,      \* amounts[i]
    mu,           \* holder of the mutex mu, -1 when unlocked
    wg,           \* counter of the WaitGroup wg
    chOut,        \* buffer of chOut
    chOutClosed,  \* chOut is closed
    pcCloser,     \* closing goroutine: "wait", "close", "done"
    pcSink,       \* reading goroutine: "recv", "count", "sum", "done"
    sv,           \* reading goroutine's loop variable v
    count,        \* atomic count
    sum,          \* atomic sum
    sinkGot,      \* history: how many times the sink received each value
    wg1,          \* counter of the WaitGroup wg1
    pcMain,       \* main: "wait", "report", "checkSum", "checkCount",
                  \*       "subtract", "checkSplit", "verified", "failed"
    vi,           \* index of main's loop over amounts
    readCount,    \* history: inputCount as reported by main
    panicked      \* a runtime panic ended the process (close of a closed
                  \* channel, send on a closed channel)

vars == <<NumOut, cancelled, pcGen, n, genSent, lateSent, chInClosed,
          inputCount, inputSum, pcW, wv, outsClosed, lastOut, pcC, cv,
          amounts, mu, wg, chOut,
          chOutClosed, pcCloser, pcSink, sv, count, sum, sinkGot, wg1,
          pcMain, vi, readCount, panicked>>

genVars  == <<pcGen, n, genSent, lateSent, chInClosed, inputCount,
             inputSum>>
workVars == <<pcW, wv, outsClosed, lastOut>>
collVars == <<pcC, cv, amounts, mu, wg>>
outVars  == <<chOut, chOutClosed, pcCloser>>
sinkVars == <<pcSink, sv, count, sum, sinkGot, wg1>>
mainVars == <<pcMain, vi, readCount>>

Lanes == 0 .. (NumOut - 1)

RECURSIVE SumTo(_, _)
\* amounts[0] + ... + amounts[k-1]
SumTo(a, k) == IF k = 0 THEN 0 ELSE a[k - 1] + SumTo(a, k - 1)

-----------------------------------------------------------------------------
(* main, lines 44-112: everything is created and every goroutine started.  *)

InitFor(k) ==
    /\ NumOut = k
    /\ cancelled = FALSE
    /\ pcGen = "select"
    /\ n = 1
    /\ genSent = 0
    /\ lateSent = 0
    /\ chInClosed = FALSE
    /\ inputCount = 0
    /\ inputSum = 0
    /\ pcW = [i \in Lanes |-> "recv"]
    /\ wv = [i \in Lanes |-> 0]
    /\ outsClosed = [i \in Lanes |-> FALSE]
    /\ lastOut = [i \in Lanes |-> 0]
    /\ pcC = [i \in Lanes |-> "recv"]
    /\ cv = [i \in Lanes |-> 0]
    /\ amounts = [i \in Lanes |-> 0]
    /\ mu = -1
    /\ wg = NumOut
    /\ chOut = <<>>
    /\ chOutClosed = FALSE
    /\ pcCloser = "wait"
    /\ pcSink = "recv"
    /\ sv = 0
    /\ count = 0
    /\ sum = 0
    /\ sinkGot = [v \in {} |-> 0]
    /\ wg1 = 1
    /\ pcMain = "wait"
    /\ vi = 0
    /\ readCount = 0
    /\ panicked = FALSE

Init == \E k \in 1 .. MaxWorkers : InitFor(k)

-----------------------------------------------------------------------------
(* The deadline of context.WithTimeout fires.                              *)

Timeout ==
    /\ ~panicked
    /\ ~cancelled
    /\ cancelled' = TRUE
    /\ UNCHANGED <<NumOut, genVars, workVars, collVars, outVars, sinkVars,
                   mainVars, panicked>>

-----------------------------------------------------------------------------
(* Generator                                                               *)

\* GenCancel without the deferred close(ch).
GenCancelNoClose ==
    /\ ~panicked
    /\ pcGen = "select"
    /\ cancelled
    /\ pcGen' = "done"
    /\ UNCHANGED <<NumOut, cancelled, n, genSent, lateSent, chInClosed,
                   inputCount, inputSum, workVars, collVars, outVars,
                   sinkVars, mainVars, panicked>>

\* GenCancel that also returns between the send and the observer call.
GenCancelBeforeCount ==
    /\ ~panicked
    /\ pcGen \in {"select", "count"}
    /\ cancelled
    /\ pcGen' = "done"
    /\ IF chInClosed
         THEN panicked' = TRUE /\ UNCHANGED chInClosed
         ELSE chInClosed' = TRUE /\ UNCHANGED panicked
    /\ UNCHANGED <<NumOut, cancelled, n, genSent, lateSent, inputCount,
                   inputSum, workVars, collVars, outVars, sinkVars, mainVars>>

\* select: ctx.Done() is ready, return; the deferred close(ch) runs.
GenCancel ==
    /\ ~panicked
    /\ pcGen = "select"
    /\ cancelled
    /\ pcGen' = "done"
    /\ IF chInClosed
         THEN panicked' = TRUE /\ UNCHANGED chInClosed
         ELSE chInClosed' = TRUE /\ UNCHANGED panicked
    /\ UNCHANGED <<NumOut, cancelled, n, genSent, lateSent, inputCount,
                   inputSum, workVars, collVars, outVars, sinkVars, mainVars>>

\* GenDefault that goes on to send without looking at ctx.Done().
GenDefaultUnchecked(cap) ==
    /\ ~panicked
    /\ pcGen = "select"
    /\ n <= cap
    /\ pcGen' = "send"
    /\ UNCHANGED <<NumOut, cancelled, n, genSent, lateSent, chInClosed,
                   inputCount, inputSum, workVars, collVars, outVars,
                   sinkVars, mainVars, panicked>>

\* select: ctx.Done() is not ready, the default branch is taken. The
\* deadline fires before the Generator gets to a number above cap.
GenDefault(cap) ==
    /\ ~panicked
    /\ pcGen = "select"
    /\ ~cancelled
    /\ n <= cap
    /\ pcGen' = "send"
    /\ UNCHANGED <<NumOut, cancelled, n, genSent, lateSent, chInClosed,
                   inputCount, inputSum, workVars, collVars, outVars,
                   sinkVars, mainVars, panicked>>

\* ch <- n: meets Worker i's receive in "for v := range in"; a send on a
\* closed channel panics.
GenSend(i) ==
    /\ ~panicked
    /\ pcGen = "send"
    /\ IF chInClosed
         THEN /\ panicked' = TRUE
              /\ UNCHANGED <<genVars, workVars>>
         ELSE /\ pcW[i] = "recv"
              /\ pcGen' = "count"
              /\ genSent' = genSent + 1
              /\ lateSent' = IF cancelled THEN lateSent + 1 ELSE lateSent
              /\ pcW' = [pcW EXCEPT ![i] = "send"]
              /\ wv' = [wv EXCEPT ![i] = n]
              /\ UNCHANGED <<n, chInClosed, inputCount, inputSum, outsClosed,
                             lastOut, panicked>>
    /\ UNCHANGED <<NumOut, cancelled, collVars, outVars, sinkVars, mainVars>>

\* fn(n): inputCount.Add(1)
GenCount ==
    /\ ~panicked
    /\ pcGen = "count"
    /\ inputCount' = inputCount + 1
    /\ pcGen' = "sum"
    /\ UNCHANGED <<NumOut, cancelled, n, genSent, lateSent, chInClosed,
                   inputSum, workVars, collVars, outVars, sinkVars, mainVars,
                   panicked>>

\* GenSum without n++.
GenSumSameNumber ==
    /\ ~panicked
    /\ pcGen = "sum"
    /\ inputSum' = inputSum + n
    /\ pcGen' = "select"
    /\ UNCHANGED <<NumOut, cancelled, n, genSent, lateSent, chInClosed,
                   inputCount, workVars, collVars, outVars, sinkVars,
                   mainVars, panicked>>

\* GenSum that loops back to the send: the select is outside the loop.
GenSumThenSend ==
    /\ ~panicked
    /\ pcGen = "sum"
    /\ inputSum' = inputSum + n
    /\ n' = n + 1
    /\ pcGen' = "send"
    /\ UNCHANGED <<NumOut, cancelled, genSent, lateSent, chInClosed,
                   inputCount, workVars, collVars, outVars, sinkVars,
                   mainVars, panicked>>

\* GenSum with n++ before fn(n): the observer gets the next number.
GenSumAfterIncrement ==
    /\ ~panicked
    /\ pcGen = "sum"
    /\ inputSum' = inputSum + (n + 1)
    /\ n' = n + 1
    /\ pcGen' = "select"
    /\ UNCHANGED <<NumOut, cancelled, genSent, lateSent, chInClosed,
                   inputCount, workVars, collVars, outVars, sinkVars,
                   mainVars, panicked>>

\* fn(n): inputSum.Add(i); then n++
GenSum ==
    /\ ~panicked
    /\ pcGen = "sum"
    /\ inputSum' = inputSum + n
    /\ n' = n + 1
    /\ pcGen' = "select"
    /\ UNCHANGED <<NumOut, cancelled, genSent, lateSent, chInClosed,
                   inputCount, workVars, collVars, outVars, sinkVars,
                   mainVars, panicked>>

Generator(cap) ==
    \/ GenCancel
    \/ GenDefault(cap)
    \/ \E i \in Lanes : GenSend(i)
    \/ GenCount
    \/ GenSum

-----------------------------------------------------------------------------
(* Worker(in, outs[i])                                                     *)

\* WorkerExit without the deferred close(out).
WorkerExitNoClose(i) ==
    /\ ~panicked
    /\ pcW[i] = "recv"
    /\ chInClosed
    /\ pcW' = [pcW EXCEPT ![i] = "done"]
    /\ UNCHANGED <<NumOut, cancelled, genVars, wv, outsClosed, lastOut,
                   collVars, outVars, sinkVars, mainVars, panicked>>

\* WorkerExit that also returns when the deadline has fired.
WorkerExitOnCancel(i) ==
    /\ ~panicked
    /\ pcW[i] = "recv"
    /\ chInClosed \/ cancelled
    /\ pcW' = [pcW EXCEPT ![i] = "done"]
    /\ IF outsClosed[i]
         THEN panicked' = TRUE /\ UNCHANGED outsClosed
         ELSE outsClosed' = [outsClosed EXCEPT ![i] = TRUE] /\ UNCHANGED panicked
    /\ UNCHANGED <<NumOut, cancelled, genVars, wv, lastOut, collVars, outVars,
                   sinkVars, mainVars>>

\* for v := range in: in is closed and empty, the loop ends and the
\* deferred close(out) runs.
WorkerExit(i) ==
    /\ ~panicked
    /\ pcW[i] = "recv"
    /\ chInClosed
    /\ pcW' = [pcW EXCEPT ![i] = "done"]
    /\ IF outsClosed[i]
         THEN panicked' = TRUE /\ UNCHANGED outsClosed
         ELSE outsClosed' = [outsClosed EXCEPT ![i] = TRUE] /\ UNCHANGED panicked
    /\ UNCHANGED <<NumOut, cancelled, genVars, wv, lastOut, collVars, outVars,
                   sinkVars, mainVars>>

\* WorkerSend that gives up the value once the input channel is closed.
WorkerSendOrDrop(i) ==
    /\ ~panicked
    /\ pcW[i] = "send"
    /\ IF chInClosed
         THEN /\ pcW' = [pcW EXCEPT ![i] = "done"]
              /\ outsClosed' = [outsClosed EXCEPT ![i] = TRUE]
              /\ UNCHANGED <<wv, lastOut, pcC, cv>>
         ELSE /\ pcC[i] = "recv"
              /\ pcW' = [pcW EXCEPT ![i] = "sleep"]
              /\ wv' = [wv EXCEPT ![i] = 0]
              /\ pcC' = [pcC EXCEPT ![i] = "lock"]
              /\ cv' = [cv EXCEPT ![i] = wv[i]]
              /\ lastOut' = [lastOut EXCEPT ![i] = wv[i]]
              /\ UNCHANGED outsClosed
    /\ UNCHANGED <<NumOut, cancelled, genVars, amounts, mu, wg, outVars,
                   sinkVars, mainVars, panicked>>

\* out <- v: meets collector i's receive in "for v := range ch".
WorkerSend(i) ==
    /\ ~panicked
    /\ pcW[i] = "send"
    /\ IF outsClosed[i]
         THEN /\ panicked' = TRUE
              /\ UNCHANGED <<workVars, pcC, cv>>
         ELSE /\ pcC[i] = "recv"
              /\ pcW' = [pcW EXCEPT ![i] = "sleep"]
              /\ wv' = [wv EXCEPT ![i] = 0]
              /\ pcC' = [pcC EXCEPT ![i] = "lock"]
              /\ cv' = [cv EXCEPT ![i] = wv[i]]
              /\ lastOut' = [lastOut EXCEPT ![i] = wv[i]]
              /\ UNCHANGED <<outsClosed, panicked>>
    /\ UNCHANGED <<NumOut, cancelled, genVars, amounts, mu, wg, outVars,
                   sinkVars, mainVars>>

\* time.Sleep(1 * time.Millisecond) returns.
WorkerSleep(i) ==
    /\ ~panicked
    /\ pcW[i] = "sleep"
    /\ pcW' = [pcW EXCEPT ![i] = "recv"]
    /\ UNCHANGED <<NumOut, cancelled, genVars, wv, outsClosed, lastOut,
                   collVars, outVars, sinkVars, mainVars, panicked>>

Worker(i) ==
    \/ WorkerExit(i)
    \/ WorkerSend(i)
    \/ WorkerSleep(i)

-----------------------------------------------------------------------------
(* The collecting goroutine of outs[i], main lines 80-88.                  *)

\* CollectorExit that counts the failed receive as a value too.
CollectorExitCounting(i) ==
    /\ ~panicked
    /\ pcC[i] = "recv"
    /\ outsClosed[i]
    /\ pcC' = [pcC EXCEPT ![i] = "done"]
    /\ amounts' = [amounts EXCEPT ![i] = amounts[i] + 1]
    /\ wg' = wg - 1
    /\ UNCHANGED <<NumOut, cancelled, genVars, workVars, cv, mu, outVars,
                   sinkVars, mainVars, panicked>>

\* for v := range ch: ch is closed and empty, the loop ends and the
\* deferred wg.Done() runs.
CollectorExit(i) ==
    /\ ~panicked
    /\ pcC[i] = "recv"
    /\ outsClosed[i]
    /\ pcC' = [pcC EXCEPT ![i] = "done"]
    /\ wg' = wg - 1
    /\ UNCHANGED <<NumOut, cancelled, genVars, workVars, cv, amounts, mu,
                   outVars, sinkVars, mainVars, panicked>>

\* CollectorLock that does not wait for the mutex to be free.
CollectorLockUnguarded(i) ==
    /\ ~panicked
    /\ pcC[i] = "lock"
    /\ mu' = i
    /\ pcC' = [pcC EXCEPT ![i] = "inc"]
    /\ UNCHANGED <<NumOut, cancelled, genVars, workVars, cv, amounts, wg,
                   outVars, sinkVars, mainVars, panicked>>

\* CollectorLock as mu.TryLock(): with the mutex taken, the value is
\* forwarded without being counted.
CollectorTryLock(i) ==
    /\ ~panicked
    /\ pcC[i] = "lock"
    /\ IF mu = -1
         THEN mu' = i /\ pcC' = [pcC EXCEPT ![i] = "inc"]
         ELSE mu' = mu /\ pcC' = [pcC EXCEPT ![i] = "send"]
    /\ UNCHANGED <<NumOut, cancelled, genVars, workVars, cv, amounts, wg,
                   outVars, sinkVars, mainVars, panicked>>

\* mu.Lock()
CollectorLock(i) ==
    /\ ~panicked
    /\ pcC[i] = "lock"
    /\ mu = -1
    /\ mu' = i
    /\ pcC' = [pcC EXCEPT ![i] = "inc"]
    /\ UNCHANGED <<NumOut, cancelled, genVars, workVars, cv, amounts, wg,
                   outVars, sinkVars, mainVars, panicked>>

\* amounts[i]++
CollectorInc(i) ==
    /\ ~panicked
    /\ pcC[i] = "inc"
    /\ amounts' = [amounts EXCEPT ![i] = amounts[i] + 1]
    /\ pcC' = [pcC EXCEPT ![i] = "unlock"]
    /\ UNCHANGED <<NumOut, cancelled, genVars, workVars, cv, mu, wg, outVars,
                   sinkVars, mainVars, panicked>>

\* mu.Unlock()
CollectorUnlock(i) ==
    /\ ~panicked
    /\ pcC[i] = "unlock"
    /\ mu' = -1
    /\ pcC' = [pcC EXCEPT ![i] = "send"]
    /\ UNCHANGED <<NumOut, cancelled, genVars, workVars, cv, amounts, wg,
                   outVars, sinkVars, mainVars, panicked>>

\* CollectorSend on a chOut without a capacity limit.
CollectorSendUnbounded(i) ==
    /\ ~panicked
    /\ pcC[i] = "send"
    /\ IF chOutClosed
         THEN /\ panicked' = TRUE
              /\ UNCHANGED <<pcC, cv, chOut>>
         ELSE /\ chOut' = Append(chOut, cv[i])
              /\ pcC' = [pcC EXCEPT ![i] = "recv"]
              /\ cv' = [cv EXCEPT ![i] = 0]
              /\ UNCHANGED panicked
    /\ UNCHANGED <<NumOut, cancelled, genVars, workVars, amounts, mu, wg,
                   chOutClosed, pcCloser, sinkVars, mainVars>>

\* chOut <- v: blocks while the buffer holds NumOut values, panics on a
\* closed channel.
CollectorSend(i) ==
    /\ ~panicked
    /\ pcC[i] = "send"
    /\ IF chOutClosed
         THEN /\ panicked' = TRUE
              /\ UNCHANGED <<pcC, cv, chOut>>
         ELSE /\ Len(chOut) < NumOut
              /\ chOut' = Append(chOut, cv[i])
              /\ pcC' = [pcC EXCEPT ![i] = "recv"]
              /\ cv' = [cv EXCEPT ![i] = 0]
              /\ UNCHANGED panicked
    /\ UNCHANGED <<NumOut, cancelled, genVars, workVars, amounts, mu, wg,
                   chOutClosed, pcCloser, sinkVars, mainVars>>

Collector(i) ==
    \/ CollectorExit(i)
    \/ CollectorLock(i)
    \/ CollectorInc(i)
    \/ CollectorUnlock(i)
    \/ CollectorSend(i)

-----------------------------------------------------------------------------
(* The closing goroutine, main lines 91-96.                                *)

\* CloserWait that returns as soon as one collector has finished.
CloserWaitFirst ==
    /\ ~panicked
    /\ pcCloser = "wait"
    /\ wg < NumOut
    /\ pcCloser' = "close"
    /\ UNCHANGED <<NumOut, cancelled, genVars, workVars, collVars, chOut,
                   chOutClosed, sinkVars, mainVars, panicked>>

\* wg.Wait() returns once the counter is zero.
CloserWait ==
    /\ ~panicked
    /\ pcCloser = "wait"
    /\ wg = 0
    /\ pcCloser' = "close"
    /\ UNCHANGED <<NumOut, cancelled, genVars, workVars, collVars, chOut,
                   chOutClosed, sinkVars, mainVars, panicked>>

\* close(chOut)
CloserClose ==
    /\ ~panicked
    /\ pcCloser = "close"
    /\ pcCloser' = "done"
    /\ IF chOutClosed
         THEN panicked' = TRUE /\ UNCHANGED chOutClosed
         ELSE chOutClosed' = TRUE /\ UNCHANGED panicked
    /\ UNCHANGED <<NumOut, cancelled, genVars, workVars, collVars, chOut,
                   sinkVars, mainVars>>

Closer ==
    \/ CloserWait
    \/ CloserClose

-----------------------------------------------------------------------------
(* The reading goroutine of chOut, main lines 105-111.                     *)

\* The bag got with one more occurrence of v.
Received(got, v) ==
    [x \in DOMAIN got \cup {v} |->
        IF x \in DOMAIN got THEN got[x] + (IF x = v THEN 1 ELSE 0) ELSE 1]

\* for v := range ch receives the oldest buffered value.
SinkRecv ==
    /\ ~panicked
    /\ pcSink = "recv"
    /\ chOut # <<>>
    /\ sv' = Head(chOut)
    /\ chOut' = Tail(chOut)
    /\ sinkGot' = Received(sinkGot, Head(chOut))
    /\ pcSink' = "count"
    /\ UNCHANGED <<NumOut, cancelled, genVars, workVars, collVars,
                   chOutClosed, pcCloser, count, sum, wg1, mainVars,
                   panicked>>

\* SinkExit that stops at the first empty buffer, closed or not.
SinkExitEarly ==
    /\ ~panicked
    /\ pcSink = "recv"
    /\ chOut = <<>>
    /\ pcSink' = "done"
    /\ wg1' = wg1 - 1
    /\ UNCHANGED <<NumOut, cancelled, genVars, workVars, collVars, outVars,
                   sv, count, sum, sinkGot, mainVars, panicked>>

\* for v := range ch: ch is closed and empty, the loop ends and the
\* deferred wg1.Done() runs.
SinkExit ==
    /\ ~panicked
    /\ pcSink = "recv"
    /\ chOut = <<>>
    /\ chOutClosed
    /\ pcSink' = "done"
    /\ wg1' = wg1 - 1
    /\ UNCHANGED <<NumOut, cancelled, genVars, workVars, collVars, outVars,
                   sv, count, sum, sinkGot, mainVars, panicked>>

\* count.Add(1)
SinkCount ==
    /\ ~panicked
    /\ pcSink = "count"
    /\ count' = count + 1
    /\ pcSink' = "sum"
    /\ UNCHANGED <<NumOut, cancelled, genVars, workVars, collVars, outVars,
                   sv, sum, sinkGot, wg1, mainVars, panicked>>

\* SinkSum with sum.Add(1).
SinkSumOne ==
    /\ ~panicked
    /\ pcSink = "sum"
    /\ sum' = sum + 1
    /\ pcSink' = "recv"
    /\ UNCHANGED <<NumOut, cancelled, genVars, workVars, collVars, outVars,
                   sv, count, sinkGot, wg1, mainVars, panicked>>

\* sum.Add(v)
SinkSum ==
    /\ ~panicked
    /\ pcSink = "sum"
    /\ sum' = sum + sv
    /\ pcSink' = "recv"
    /\ UNCHANGED <<NumOut, cancelled, genVars, workVars, collVars, outVars,
                   sv, count, sinkGot, wg1, mainVars, panicked>>

Sink ==
    \/ SinkRecv
    \/ SinkExit
    \/ SinkCount
    \/ SinkSum

-----------------------------------------------------------------------------
(* main after starting the goroutines, lines 112-130.                      *)

\* MainWait without the join: main goes on while the pipeline runs.
MainWaitNoJoin ==
    /\ ~panicked
    /\ pcMain = "wait"
    /\ pcMain' = "report"
    /\ UNCHANGED <<NumOut, cancelled, genVars, workVars, collVars, outVars,
                   sinkVars, vi, readCount, panicked>>

\* wg1.Wait() returns once the reading goroutine has called wg1.Done().
MainWait ==
    /\ ~panicked
    /\ pcMain = "wait"
    /\ wg1 = 0
    /\ pcMain' = "report"
    /\ UNCHANGED <<NumOut, cancelled, genVars, workVars, collVars, outVars,
                   sinkVars, vi, readCount, panicked>>

\* The three fmt.Println calls load the counters and amounts.
MainReport ==
    /\ ~panicked
    /\ pcMain = "report"
    /\ readCount' = inputCount
    /\ pcMain' = "checkSum"
    /\ UNCHANGED <<NumOut, cancelled, genVars, workVars, collVars, outVars,
                   sinkVars, vi, panicked>>

\* if inputSum.Load() != sum.Load() { log.Fatalf(...) }
MainCheckSum ==
    /\ ~panicked
    /\ pcMain = "checkSum"
    /\ pcMain' = IF inputSum # sum THEN "failed" ELSE "checkCount"
    /\ UNCHANGED <<NumOut, cancelled, genVars, workVars, collVars, outVars,
                   sinkVars, vi, readCount, panicked>>

\* if inputCount.Load() != count.Load() { log.Fatalf(...) }
MainCheckCount ==
    /\ ~panicked
    /\ pcMain = "checkCount"
    /\ pcMain' = IF inputCount # count THEN "failed" ELSE "subtract"
    /\ UNCHANGED <<NumOut, cancelled, genVars, workVars, collVars, outVars,
                   sinkVars, vi, readCount, panicked>>

\* MainSubtract with inputCount.Add(v).
MainSubtractAdding ==
    /\ ~panicked
    /\ pcMain = "subtract"
    /\ vi < NumOut
    /\ inputCount' = inputCount + amounts[vi]
    /\ vi' = vi + 1
    /\ UNCHANGED <<NumOut, cancelled, pcGen, n, genSent, lateSent, chInClosed,
                   inputSum, workVars, collVars, outVars, sinkVars, pcMain,
                   readCount, panicked>>

\* for _, v := range amounts { inputCount.Add(-v) }
MainSubtract ==
    /\ ~panicked
    /\ pcMain = "subtract"
    /\ vi < NumOut
    /\ inputCount' = inputCount - amounts[vi]
    /\ vi' = vi + 1
    /\ UNCHANGED <<NumOut, cancelled, pcGen, n, genSent, lateSent, chInClosed,
                   inputSum, workVars, collVars, outVars, sinkVars, pcMain,
                   readCount, panicked>>

\* if inputCount.Load() != 0 { log.Fatalf(...) }; otherwise main returns.
MainCheckSplit ==
    /\ ~panicked
    /\ pcMain = "subtract"
    /\ vi = NumOut
    /\ pcMain' = IF inputCount # 0 THEN "failed" ELSE "verified"
    /\ UNCHANGED <<NumOut, cancelled, genVars, workVars, collVars, outVars,
                   sinkVars, vi, readCount, panicked>>

Main ==
    \/ MainWait
    \/ MainReport
    \/ MainCheckSum
    \/ MainCheckCount
    \/ MainSubtract
    \/ MainCheckSplit

-----------------------------------------------------------------------------

Tasks(cap) ==
    \/ Generator(cap)
    \/ \E i \in Lanes : Worker(i)
    \/ \E i \in Lanes : Collector(i)
    \/ Closer
    \/ Sink
    \/ Main

Pipeline(cap) ==
    \/ Timeout
    \/ Tasks(cap)

Next == Pipeline(MaxItems)

Spec == Init /\ [][Next]_vars

\* The Go scheduler lets every goroutine that can run do so eventually.
Fairness ==
    /\ WF_vars(Generator(MaxItems))
    /\ \A i \in 0 .. (MaxWorkers - 1) : WF_vars(i \in Lanes /\ Worker(i))
    /\ \A i \in 0 .. (MaxWorkers - 1) : WF_vars(i \in Lanes /\ Collector(i))
    /\ WF_vars(Closer)
    /\ WF_vars(Sink)
    /\ WF_vars(Main)

FairSpec == Spec /\ Fairness

\* The pipeline with two workers and a deadline that lets the Generator get
\* to 5 at most.
InitScenario == InitFor(2)

NextScenario == Pipeline(5)

SpecScenario == InitScenario /\ [][NextScenario]_vars

\* The pipeline with one or two workers and a deadline that lets the
\* Generator get to 5 at most, more than one worker's pipeline can hold.
InitBackpressure == \E k \in 1 .. 2 : InitFor(k)

SpecBackpressure == InitBackpressure /\ [][NextScenario]_vars

\* The result checks of main (lines 112-130) on their own: every goroutine
\* has returned, and the counters and amounts hold any values up to
\* MaxCounter.
InitVerifier ==
    \E k \in 1 .. MaxWorkers :
        /\ NumOut = k
        /\ cancelled = TRUE
        /\ pcGen = "done"
        /\ n = 1
        /\ genSent = 0
        /\ lateSent = 0
        /\ chInClosed = TRUE
        /\ inputCount \in 0 .. MaxCounter
        /\ inputSum \in 0 .. MaxCounter
        /\ pcW = [i \in Lanes |-> "done"]
        /\ wv = [i \in Lanes |-> 0]
        /\ outsClosed = [i \in Lanes |-> TRUE]
        /\ lastOut = [i \in Lanes |-> 0]
        /\ pcC = [i \in Lanes |-> "done"]
        /\ cv = [i \in Lanes |-> 0]
        /\ amounts \in [Lanes -> 0 .. MaxCounter]
        /\ mu = -1
        /\ wg = 0
        /\ chOut = <<>>
        /\ chOutClosed = TRUE
        /\ pcCloser = "done"
        /\ pcSink = "done"
        /\ sv = 0
        /\ count \in 0 .. MaxCounter
        /\ sum \in 0 .. MaxCounter
        /\ sinkGot = [v \in {} |-> 0]
        /\ wg1 = 0
        /\ pcMain = "wait"
        /\ vi = 0
        /\ readCount = 0
        /\ panicked = FALSE

NextVerifier == Main

SpecVerifier == InitVerifier /\ [][NextVerifier]_vars

-----------------------------------------------------------------------------
(* Properties                                                              *)

\* main reads the counters in the report and in the checks that follow it.
Reading == pcMain \in {"report", "checkSum", "checkCount"}

\* main has passed the report; readCount holds the inputCount it reported.
Reported == pcMain \in {"checkSum", "checkCount", "subtract", "verified", "failed"}

\* The number of generated values as main sees it: inputCount, until the
\* loop over amounts starts to subtract from it.
SourceCount == IF Reported THEN readCount ELSE inputCount

\* C1 - Conservation: whenever main reads the counters (whatever NumOut,
\* whenever the deadline fired, whatever the interleaving) the generated
\* and the received count are equal and so are the two sums.
Conservation ==
    Reading => (inputCount = count /\ inputSum = sum)

ConservationWitness ==
    /\ pcMain = "checkCount"
    /\ NumOut > 1
    /\ \A i \in Lanes : amounts[i] > 0

\* C2 - Lane partition: no amounts[i] is ever negative, and from the moment
\* main reads the counters the sum of amounts equals the generated count.
LanePartition ==
    /\ \A i \in Lanes : amounts[i] >= 0
    /\ (Reading \/ Reported) => SumTo(amounts, NumOut) = SourceCount

LanePartitionWitness ==
    /\ pcMain = "subtract"
    /\ vi = NumOut
    /\ NumOut > 1
    /\ amounts[0] > 0
    /\ amounts[1] > 0

\* C3 - Exactly-once delivery: once the reading goroutine has drained chOut
\* the bag of values it received is exactly {1, ..., generated count}, each
\* value once.
ExactlyOnce ==
    pcSink = "done" => sinkGot = [v \in 1 .. SourceCount |-> 1]

ExactlyOnceWitness ==
    /\ pcSink = "done"
    /\ NumOut > 1
    /\ \A v \in 1 .. 2 : v \in DOMAIN sinkGot
    /\ sv = 1

\* Every goroutine of the pipeline has returned and every channel is closed
\* and empty.
Quiescent ==
    /\ pcGen = "done"
    /\ \A i \in Lanes : pcW[i] = "done" /\ wv[i] = 0
    /\ \A i \in Lanes : pcC[i] = "done" /\ cv[i] = 0
    /\ pcCloser = "done"
    /\ pcSink = "done"
    /\ chInClosed
    /\ \A i \in Lanes : outsClosed[i]
    /\ chOutClosed
    /\ chOut = <<>>

\* C4 - Clean shutdown: with every goroutine scheduled fairly, once the
\* deadline has fired the pipeline eventually is quiescent.
CleanShutdown == cancelled ~> Quiescent

CleanShutdownWitness ==
    /\ Quiescent
    /\ NumOut > 1
    /\ genSent > 1

\* main has ended, by returning or by log.Fatalf.
Finished == pcMain \in {"verified", "failed"}

\* C5 - Deadlock freedom: until main has ended some goroutine can take a
\* step. At its select the Generator can always run, the select having a
\* default branch (the model only holds it there at the bound on n).
DeadlockFree ==
    Finished \/ ENABLED Tasks(MaxItems) \/ (pcGen = "select" /\ ~cancelled)

\* The Generator, the closing goroutine, the reading goroutine and main are
\* all blocked, and a Worker can run.
DeadlockFreeWitness ==
    /\ cancelled
    /\ pcGen = "send"
    /\ \A i \in Lanes : pcW[i] # "recv"
    /\ chOut = <<>>
    /\ pcSink = "recv"
    /\ pcCloser = "wait"
    /\ pcMain = "wait"

\* C6 - Channel closing discipline: chOut is closed by the closing goroutine
\* only, once, when every collector has returned; chIn is closed by the
\* Generator and outs[i] by Worker i, each as its last act; no send on a
\* closed channel and no second close ever happens (either would panic).
CloseDiscipline ==
    /\ ~panicked
    /\ chOutClosed <=> pcCloser = "done"
    /\ chOutClosed => (wg = 0 /\ \A i \in Lanes : pcC[i] = "done")
    /\ chInClosed <=> pcGen = "done"
    /\ \A i \in Lanes : outsClosed[i] <=> pcW[i] = "done"

CloseDisciplineWitness ==
    /\ chOutClosed
    /\ NumOut > 1
    /\ \A i \in Lanes : amounts[i] > 0

\* C7 - Generator cancellation: a Generator that is at its select when the
\* deadline has fired can only return, closing chIn, without a further send
\* or observer call; once it has returned chIn stays closed and nothing is
\* sent or counted any more; chIn is closed exactly when it has returned.
GeneratorCancellation ==
    /\ [][(pcGen = "select" /\ cancelled /\ pcGen' # pcGen)
            => (pcGen' = "done" /\ ~chInClosed /\ chInClosed'
                /\ genSent' = genSent /\ inputCount' = inputCount
                /\ inputSum' = inputSum /\ n' = n)]_vars
    /\ [][pcGen = "done"
            => (pcGen' = "done" /\ chInClosed' /\ genSent' = genSent
                /\ inputCount' <= inputCount /\ inputSum' = inputSum)]_vars
    /\ [](~panicked /\ (chInClosed <=> pcGen = "done"))

GeneratorCancellationWitness ==
    /\ pcGen = "done"
    /\ chInClosed
    /\ genSent > 0
    /\ n <= MaxItems

\* C8 - Worker relay: a Worker holds a value exactly while it is at its
\* send; the value it holds goes to collector i of its own channel before
\* it receives again; it closes outs[i] only when chIn is closed and it holds
\* nothing, and then it is done.
WorkerRelay ==
    /\ [](\A i \in Lanes :
            /\ (pcW[i] = "send") <=> (wv[i] # 0)
            /\ outsClosed[i] <=> pcW[i] = "done"
            /\ outsClosed[i] => chInClosed)
    /\ [][\A i \in Lanes :
            /\ (wv[i] # 0 /\ wv'[i] # wv[i])
                 => (wv'[i] = 0 /\ cv'[i] = wv[i] /\ pcC[i] = "recv"
                     /\ pcW'[i] = "sleep")
            /\ (wv[i] = 0 /\ wv'[i] # 0)
                 => (pcW[i] = "recv" /\ wv'[i] = n /\ pcGen = "send")
            /\ (~outsClosed[i] /\ outsClosed'[i])
                 => (pcW[i] = "recv" /\ chInClosed)]_vars
    /\ [](~panicked)

\* A Worker that never received a value has closed its channel, while
\* another Worker has relayed values.
WorkerRelayWitness ==
    /\ NumOut > 1
    /\ \A i \in Lanes : outsClosed[i]
    /\ amounts[0] = 0
    /\ pcC[0] = "done"
    /\ amounts[1] > 1

\* C9 - Verifier outcome: on any counter values, main ends in log.Fatalf
\* exactly if the sums differ, the counts differ or amounts does not sum to
\* the generated count; otherwise it returns normally.
VerifierOutcome ==
    Finished =>
        (pcMain = "failed" <=>
            \/ inputSum # sum
            \/ readCount # count
            \/ SumTo(amounts, NumOut) # readCount)

\* Only the third check fails.
VerifierOutcomeWitness ==
    /\ pcMain = "failed"
    /\ inputSum = sum
    /\ readCount = count
    /\ count > 0
    /\ vi = NumOut

\* The pipeline itself never ends in log.Fatalf.
NeverFailed == pcMain # "failed"

\* C10 - Concrete scenario: with two workers, when the Generator has sent
\* exactly 1..5 before it saw the deadline, main ends normally with both
\* counts 5, both sums 15 and amounts[0] + amounts[1] = 5.
Scenario ==
    (Finished /\ NumOut = 2 /\ genSent = 5) =>
        /\ pcMain = "verified"
        /\ readCount = 5
        /\ count = 5
        /\ inputSum = 15
        /\ sum = 15
        /\ amounts[0] + amounts[1] = 5
        /\ sinkGot = [v \in 1 .. 5 |-> 1]

ScenarioWitness ==
    /\ pcMain = "verified"
    /\ NumOut = 2
    /\ genSent = 5
    /\ amounts[0] = 2
    /\ amounts[1] = 3

\* main has returned from wg1.Wait().
VerifierStarted == pcMain # "wait"

\* C11 as stated - Counter lifecycle: every shared counter starts at zero,
\* and once main has returned from wg1.Wait() no shared counter changes any
\* more.
CounterLifecycleReadOnly ==
    /\ (inputCount = 0 /\ inputSum = 0 /\ count = 0 /\ sum = 0
        /\ \A i \in Lanes : amounts[i] = 0)
    /\ [][VerifierStarted =>
            (inputCount' = inputCount /\ inputSum' = inputSum
             /\ count' = count /\ sum' = sum /\ amounts' = amounts)]_vars

\* C11 as amended - Counter lifecycle: every shared counter starts at zero;
\* once main has returned from wg1.Wait() inputSum, count, sum and amounts
\* never change, and inputCount changes only by main's own loop over
\* amounts, which subtracts amounts[vi] from it after the report and the
\* two comparisons.
CounterLifecycle ==
    /\ (inputCount = 0 /\ inputSum = 0 /\ count = 0 /\ sum = 0
        /\ \A i \in Lanes : amounts[i] = 0)
    /\ [][VerifierStarted =>
            /\ inputSum' = inputSum
            /\ count' = count
            /\ sum' = sum
            /\ amounts' = amounts
            /\ inputCount' # inputCount =>
                  (pcMain = "subtract" /\ vi < NumOut
                   /\ inputCount' = inputCount - amounts[vi])]_vars

\* main has subtracted all of amounts from a non-zero inputCount.
CounterLifecycleWitness ==
    /\ pcMain = "subtract"
    /\ vi = NumOut
    /\ NumOut > 1
    /\ readCount > 1
    /\ inputCount = 0

\* C12 - Verification only at quiescence: from the moment main has returned
\* from wg1.Wait(), so whenever it reads a counter or amounts, every
\* goroutine of the pipeline has returned, every channel is closed and
\* empty and mu is unlocked.
VerifyAtQuiescence ==
    VerifierStarted => (Quiescent /\ mu = -1 /\ wg = 0 /\ wg1 = 0)

VerifyAtQuiescenceWitness ==
    /\ pcMain = "report"
    /\ NumOut > 1
    /\ \A i \in Lanes : lastOut[i] > 0

\* C13 - Closure propagation order: outs[i] is closed only after chIn,
\* collector i returns only after outs[i] is closed, chOut is closed only
\* after every collector has returned, the reading goroutine returns only
\* after chOut is closed; and a Worker, a collector or the reading goroutine
\* returns only in a step that finds its input channel closed, whatever the
\* state of the deadline.
ClosurePropagation ==
    /\ [](\A i \in Lanes :
            /\ outsClosed[i] => chInClosed
            /\ pcW[i] = "done" => chInClosed
            /\ pcC[i] = "done" => outsClosed[i]
            /\ chOutClosed => pcC[i] = "done")
    /\ [](pcSink = "done" => chOutClosed)
    /\ [][\A i \in Lanes :
            /\ (pcW[i] # "done" /\ pcW'[i] = "done") => chInClosed
            /\ (pcC[i] # "done" /\ pcC'[i] = "done") => outsClosed[i]]_vars
    /\ [][(pcSink # "done" /\ pcSink' = "done")
            => (chOutClosed /\ chOut = <<>>)]_vars

\* The whole chain has closed after values went through both lanes.
ClosurePropagationWitness ==
    /\ pcSink = "done"
    /\ pcMain = "wait"
    /\ NumOut > 1
    /\ lastOut[0] = 1
    /\ lastOut[1] = 2

\* C14 - Observer sequencing: inputCount.Add(1) for n runs only after the
\* send of n has completed and before the next send or the close of chIn;
\* so at the select, at the send and once chIn is closed the generated count
\* equals the number of completed sends.
ObserverSequencing ==
    /\ [](pcGen \in {"select", "send"}
            => (inputCount = genSent /\ n = genSent + 1))
    /\ [](pcGen = "count" => (inputCount = genSent - 1 /\ n = genSent))
    /\ [](pcGen = "sum" => (inputCount = genSent /\ n = genSent))
    /\ [](chInClosed => (pcGen = "done" /\ SourceCount = genSent))
    /\ [][inputCount' > inputCount
            => (pcGen = "count" /\ inputCount' = genSent)]_vars
    /\ [][genSent' # genSent
            => (pcGen = "send" /\ inputCount = genSent
                /\ genSent' = n /\ ~chInClosed)]_vars

\* chIn is closed after several sends, each of them counted.
ObserverSequencingWitness ==
    /\ chInClosed
    /\ pcMain = "wait"
    /\ genSent > 1
    /\ inputCount = genSent

\* The collectors between mu.Lock() and mu.Unlock().
InLocked == {i \in Lanes : pcC[i] \in {"inc", "unlock"}}

\* The values received from chIn that no collector has counted yet: held by
\* a Worker, or by a collector that has not yet incremented amounts[i].
Uncounted ==
    Cardinality({i \in Lanes : wv[i] # 0})
        + Cardinality({i \in Lanes : pcC[i] \in {"lock", "inc"}})

\* C15 - Collector step order and mutual exclusion: collector i is between
\* Lock and Unlock exactly while it holds mu, so at most one collector is
\* there and none holds mu at its send on chOut; amounts[i] changes only by
\* collector i adding 1 while holding mu; a collector gets to its send only
\* by unlocking, and sends the value it counted; no increment is lost.
CollectorExclusion ==
    /\ [](\A i \in Lanes : (mu = i) <=> (i \in InLocked))
    /\ [](Cardinality(InLocked) <= 1)
    /\ [](\A i \in Lanes : pcC[i] = "send" => (mu # i /\ cv[i] # 0))
    /\ [](SumTo(amounts, NumOut) + Uncounted = genSent)
    /\ [][\A i \in Lanes :
            /\ amounts'[i] # amounts[i]
                 => (pcC[i] = "inc" /\ mu = i /\ cv[i] # 0
                     /\ amounts' = [amounts EXCEPT ![i] = amounts[i] + 1])
            /\ (pcC[i] # "send" /\ pcC'[i] = "send")
                 => (pcC[i] = "unlock" /\ mu = i /\ mu' = -1)
            /\ (pcC[i] = "send" /\ pcC'[i] # "send")
                 => chOut' = Append(chOut, cv[i])]_vars

\* One collector holds mu and the other waits for it.
CollectorExclusionWitness ==
    /\ NumOut > 1
    /\ pcC[0] = "lock"
    /\ pcC[1] = "inc"
    /\ mu = 1

\* C16 - Pipeline ordering: until main has returned from wg1.Wait(),
\* count <= sum of amounts <= completed sends <= inputCount + 1; so the
\* received count is never ahead of the generated count by more than one.
StageOrdering ==
    ~VerifierStarted =>
        /\ count <= SumTo(amounts, NumOut)
        /\ SumTo(amounts, NumOut) <= genSent
        /\ genSent <= inputCount + 1
        /\ count <= inputCount + 1

\* The reading goroutine has counted a value the observer has not.
StageOrderingWitness ==
    /\ ~VerifierStarted
    /\ count = inputCount + 1
    /\ count > 1

\* C17 - At most one late item: after the deadline has fired the Generator
\* completes at most one more send, the one it was already at; it never
\* gets to the send again. That send does complete, no Worker having
\* returned while chIn is open, and the Generator then returns.
LateItem ==
    /\ [](lateSent <= 1)
    /\ [][(cancelled /\ pcGen # "send") => pcGen' # "send"]_vars
    /\ [](~chInClosed => \A i \in Lanes : pcW[i] # "done")
    /\ ((cancelled /\ pcGen = "send") ~> (pcGen = "count"))
    /\ (cancelled ~> (pcGen = "done"))

\* The Generator has returned after one send that completed late.
LateItemWitness ==
    /\ pcGen = "done"
    /\ lateSent = 1
    /\ genSent > 1

\* C18 - Per-lane order: the values Worker i sends on outs[i] are strictly
\* increasing, each is the one value the Worker holds, received after
\* everything it sent before, and collector i receives exactly that value.
LaneOrder ==
    /\ [](\A i \in Lanes :
            /\ wv[i] # 0 => wv[i] > lastOut[i]
            /\ cv[i] # 0 => cv[i] = lastOut[i])
    /\ [][\A i \in Lanes :
            lastOut'[i] # lastOut[i]
              => (lastOut'[i] > lastOut[i] /\ lastOut'[i] = wv[i]
                  /\ cv[i] = 0 /\ cv'[i] = wv[i])]_vars

\* One Worker has relayed both 1 and 2, in this order.
LaneOrderWitness ==
    /\ NumOut > 1
    /\ lastOut[1] = 2
    /\ amounts[1] = 2

\* C19 - Gap-free totals: when the Generator is at its select or has
\* returned, inputSum = c * (c + 1) / 2 for the generated count c; when the
\* reading goroutine has returned, sum = count * (count + 1) / 2.
GapFreeTotals ==
    /\ pcGen \in {"select", "done"}
         => 2 * inputSum = SourceCount * (SourceCount + 1)
    /\ pcSink = "done" => 2 * sum = count * (count + 1)

GapFreeTotalsWitness ==
    /\ pcSink = "done"
    /\ pcMain = "wait"
    /\ NumOut > 1
    /\ count > 1
    /\ sum > count

\* The values sent on chIn that the reading goroutine has not counted yet:
\* one per Worker and per collector holding a value, the buffer of chOut,
\* and the value the reading goroutine has received and not yet counted.
InFlight ==
    Cardinality({i \in Lanes : wv[i] # 0})
        + Cardinality({i \in Lanes : cv[i] # 0})
        + Len(chOut)
        + (IF pcSink = "count" THEN 1 ELSE 0)

\* C20 - Bounded in-flight items: a Worker and a collector hold at most one
\* value each, chOut never buffers more than NumOut values, and the sends
\* completed minus count is exactly the number of values held in these
\* places, so at most 3 * NumOut + 1.
Backpressure ==
    /\ Len(chOut) <= NumOut
    /\ genSent - count = InFlight
    /\ genSent - count <= 3 * NumOut + 1

\* With one worker four values are in flight: the Worker, the collector,
\* chOut and the reading goroutine hold one each.
BackpressureWitness ==
    /\ NumOut = 1
    /\ genSent - count = 3 * NumOut + 1
    /\ pcGen = "send"

=============================================================================
